---- MODULE Spec2Model ----
(***************************************************************************)
(* A model of gac.py (graph-based alert correlation).                      *)
(*                                                                         *)
(* An alert is the tuple <<uid, src_ip, src_prt, dst_ip, dst_prt>>: the    *)
(* Python row alert[0..4] is the TLA+ tuple alert[1..5].                   *)
(* Similarity scores and thresholds are multiples of 1/8, held as the      *)
(* integer number of eighths (0.25 is 2), so that thresholds between two   *)
(* attainable scores are covered.  The certainty scores of infer_label are *)
(* exact rationals [n, d].                                                 *)
(***************************************************************************)
EXTENDS Integers, Sequences, FiniteSets

VARIABLES pc, alerts, similarity_threshold, clique_size, g_attr, cliques,
          all_clique_uids, i, labeled_clusters, g_flow, label

vars == <<pc, alerts, similarity_threshold, clique_size, g_attr, cliques,
          all_clique_uids, i, labeled_clusters, g_flow, label>>

\* ------------------------------------------------------------------ bounds
\* The longest alert array handed to alert_similarity_graph / gac_cluster.
MaxAlerts == 5
\* The longest alert list handed directly to netflow_graph.
MaxFlowAlerts == 3
\* Addresses 1..MaxFlowAddr in the alerts handed directly to netflow_graph.
MaxFlowAddr == 4
\* Nodes 1..MaxLabelNodes of the directed graphs handed directly to infer_label.
MaxLabelNodes == 3
\* Nodes 1..MaxCpmNodes of the graphs handed directly to cluster_cliques.
MaxCpmNodes == 5
\* Clique sizes 2..MaxCliqueSize handed directly to cluster_cliques.
MaxCliqueSize == 4

\* ------------------------------------------------------- program constants
\* assert alerts.shape[0] >= 5
MinAlerts == 5
\* sim += 0.25, in eighths
SimIncrement == 2
\* similarity_threshold=0.25, in eighths
DefaultThreshold == 2
\* clique_size=15
DefaultCliqueSize == 15

\* ----------------------------------------------------------------- helpers
Range(s) == {s[x] : x \in DOMAIN s}

Abs(x) == IF x < 0 THEN -x ELSE x

\* The elements of a finite set of integers in ascending order.
RECURSIVE SortedSeq(_)
SortedSeq(S) ==
  IF S = {} THEN <<>>
  ELSE LET m == CHOOSE x \in S : \A y \in S : x <= y
       IN <<m>> \o SortedSeq(S \ {m})

\* ------------------------------------------------------- networkx graphs
\* nx.Graph() / nx.DiGraph(): the nodes in insertion order and the adjacency
\* as ordered pairs (an undirected edge is stored in both directions).
EmptyGraph == [nodes |-> <<>>, adj |-> {}]

\* `n in G`
HasNode(G, n) == n \in Range(G.nodes)

\* G.add_node(n)
AddNode(G, n) ==
  IF HasNode(G, n) THEN G ELSE [G EXCEPT !.nodes = Append(@, n)]

\* nx.Graph.add_edge(u, v): both nodes are added when absent
AddEdge(G, u, v) ==
  [AddNode(AddNode(G, u), v) EXCEPT !.adj = @ \cup {<<u, v>>, <<v, u>>}]

\* nx.DiGraph.add_edge(u, v)
AddDiEdge(G, u, v) ==
  [AddNode(AddNode(G, u), v) EXCEPT !.adj = @ \cup {<<u, v>>}]

\* ------------------------------------------------- alert_similarity_graph
\* for attr_index in range(1, 5): if alert_1[attr_index] == alert_2[attr_index]: sim += 0.25
RECURSIVE SimFrom(_, _, _)
SimFrom(alert_1, alert_2, attr_index) ==
  IF attr_index > 5 THEN 0
  ELSE (IF alert_1[attr_index] = alert_2[attr_index] THEN SimIncrement ELSE 0)
       + SimFrom(alert_1, alert_2, attr_index + 1)

\* Faulty variant: range(1, 4), which leaves dst_prt out
Similarity_Mutant(alert_1, alert_2) ==
  SimFrom(alert_1, alert_2, 2) - (IF alert_1[5] = alert_2[5] THEN SimIncrement ELSE 0)

Similarity(alert_1, alert_2) == SimFrom(alert_1, alert_2, 2)

\* Faulty variant: sim >= similarity_threshold
ExceedsThreshold_Mutant(sim, threshold) == sim >= threshold

\* if sim > similarity_threshold
ExceedsThreshold(sim, threshold) == sim > threshold

\* The body of the inner loop for one (alert_1, alert_2).
SimStep(G, alert_1, alert_2, threshold) ==
  LET uid_1 == alert_1[1]
      uid_2 == alert_2[1]
  IN IF uid_1 = uid_2 THEN G
     ELSE LET G2 == AddNode(AddNode(G, uid_1), uid_2)
          IN IF ExceedsThreshold(Similarity(alert_1, alert_2), threshold)
             THEN AddEdge(G2, uid_1, uid_2)
             ELSE G2

\* for alert_2 in alerts: ...  (from the q-th alert on)
RECURSIVE SimInner(_, _, _, _, _)
SimInner(as, threshold, alert_1, q, G) ==
  IF q > Len(as) THEN G
  ELSE SimInner(as, threshold, alert_1, q + 1, SimStep(G, alert_1, as[q], threshold))

\* for alert_1 in alerts: ...  (from the p-th alert on).  The one-element set
\* makes TLC evaluate the graph after a row before it starts the next row.
RECURSIVE SimOuter(_, _, _, _)
SimOuter(as, threshold, p, G) ==
  IF p > Len(as) THEN G
  ELSE CHOOSE R \in {SimOuter(as, threshold, p + 1, H) :
                       H \in {SimInner(as, threshold, as[p], 1, G)}} : TRUE

\* The graph alert_similarity_graph returns once its assertion has passed.
alert_similarity_graph(as, threshold) == SimOuter(as, threshold, 1, EmptyGraph)

\* assert alerts.shape[0] >= 5
AssertShape(as) == Len(as) >= MinAlerts

\* ---------------------------------------------------------- netflow_graph
\* Faulty variant: without `if src == dst: continue`
FlowStep_Mutant(G, alert) ==
  AddDiEdge(AddNode(AddNode(G, alert[2]), alert[4]), alert[2], alert[4])

\* The body of the loop for one alert.
FlowStep(G, alert) ==
  LET src == alert[2]
      dst == alert[4]
  IN IF src = dst THEN G
     ELSE AddDiEdge(AddNode(AddNode(G, src), dst), src, dst)

\* for alert in alerts: ...  (from the p-th alert on)
RECURSIVE FlowLoop(_, _, _)
FlowLoop(as, p, G) ==
  IF p > Len(as) THEN G ELSE FlowLoop(as, p + 1, FlowStep(G, as[p]))

netflow_graph(as) == FlowLoop(as, 1, EmptyGraph)

\* -------------------------------------------------------- cluster_cliques
\* nx.algorithms.community.k_clique_communities(G, k), as networkx computes
\* it: the maximal cliques of at least k nodes (nx.find_cliques), linked when
\* two of them share at least k - 1 nodes; each connected component of that
\* percolation graph yields the union of its cliques.
GraphNodes(G) == Range(G.nodes)

IsClique(G, S) == \A u \in S : \A v \in S : u # v => <<u, v>> \in G.adj

\* nx.find_cliques(G)
MaximalCliques(G) ==
  {S \in SUBSET GraphNodes(G) :
     /\ S # {}
     /\ IsClique(G, S)
     /\ \A n \in GraphNodes(G) \ S : ~IsClique(G, S \cup {n})}

\* cliques = [frozenset(c) for c in cliques if len(c) >= k]
LargeCliques(G, k) == {c \in MaximalCliques(G) : Cardinality(c) >= k}

\* Faulty variant: len(clique & adj_clique) >= k
Percolates_Mutant(c, d, k) ==
  /\ c # d
  /\ c \cap d # {}
  /\ Cardinality(c \cap d) >= k

\* adj_clique shares a node with clique and len(clique & adj_clique) >= k - 1
Percolates(c, d, k) ==
  /\ c # d
  /\ c \cap d # {}
  /\ Cardinality(c \cap d) >= k - 1

\* nx.connected_components(perc_graph): the component holding the cliques S
RECURSIVE PercComponent(_, _, _)
PercComponent(all, S, k) ==
  LET S2 == S \cup {d \in all : \E c \in S : Percolates(c, d, k)}
  IN IF S2 = S THEN S ELSE PercComponent(all, S2, k)

\* The set of communities the generator yields: frozenset.union(*component)
cluster_cliques(G, k) ==
  LET all == LargeCliques(G, k)
  IN {UNION PercComponent(all, {c}, k) : c \in all}

\* k_clique_communities raises NetworkXError for k < 2
CliqueSizeOk(k) == k >= 2

\* The orders in which a generator may yield the members of S.
Orderings(S) ==
  {s \in [1..Cardinality(S) -> S] : Range(s) = S}

\* list(clique) for a frozenset of small integers: ascending
ListOf(clique) == SortedSeq(clique)

\* ------------------------------------------------------ get_alerts_by_uid
\* lookup = dict(zip(alerts[:,0], alerts)): a later row replaces an earlier
\* one with the same uid.  lookup[uid] raises KeyError for an absent uid.
HasUid(as, uid) == \E x \in DOMAIN as : as[x][1] = uid

Lookup(as, uid) ==
  as[CHOOSE x \in DOMAIN as :
       /\ as[x][1] = uid
       /\ \A y \in DOMAIN as : as[y][1] = uid => y <= x]

\* Faulty variant: the last uid of the list is left out
get_alerts_by_uid_Mutant(as, uid_list) ==
  [x \in 1..(Len(uid_list) - 1) |-> Lookup(as, uid_list[x])]

get_alerts_by_uid(as, uid_list) ==
  [x \in DOMAIN uid_list |-> Lookup(as, uid_list[x])]

\* ------------------------------------------------------------ infer_label
\* directed_graph.in_degree(node), directed_graph.out_degree(node)
InDegree(G, node) == Cardinality({e \in G.adj : e[2] = node})

\* Faulty variant: out_degree counts the edges into the node
OutDegree_Mutant(G, node) == Cardinality({e \in G.adj : e[2] = node})

OutDegree(G, node) == Cardinality({e \in G.adj : e[1] = node})

\* for node in directed_graph.nodes: if in_degree(node) >= 1: victims.append(node)
RECURSIVE Victims(_, _)
Victims(G, p) ==
  IF p > Len(G.nodes) THEN <<>>
  ELSE (IF InDegree(G, G.nodes[p]) >= 1 THEN <<G.nodes[p]>> ELSE <<>>)
       \o Victims(G, p + 1)

\* for node in directed_graph.nodes: if out_degree(node) >= 1: attackers.append(node)
RECURSIVE Attackers(_, _)
Attackers(G, p) ==
  IF p > Len(G.nodes) THEN <<>>
  ELSE (IF OutDegree(G, G.nodes[p]) >= 1 THEN <<G.nodes[p]>> ELSE <<>>)
       \o Attackers(G, p + 1)

\* Exact arithmetic: a number is [n, d] with d > 0; d = 0 stands for the
\* ZeroDivisionError a division by zero raises, which every operation passes on.
ZeroDivisionError == [n |-> 0, d |-> 0]

Raised(r) == r.d = 0

Zero == [n |-> 0, d |-> 1]

\* x / y
Div(x, y) ==
  IF y = 0 THEN ZeroDivisionError
  ELSE IF y < 0 THEN [n |-> -x, d |-> -y]
  ELSE [n |-> x, d |-> y]

\* r + s
Add(r, s) ==
  IF Raised(r) \/ Raised(s) THEN ZeroDivisionError
  ELSE [n |-> r.n * s.d + s.n * r.d, d |-> r.d * s.d]

\* 1/3 * r
Third(r) == IF Raised(r) THEN ZeroDivisionError ELSE [n |-> r.n, d |-> 3 * r.d]

\* r < s, r = s as numbers
Less(r, s) == r.n * s.d < s.n * r.d

Same(r, s) == r.n * s.d = s.n * r.d

\* Faulty variant: `if V > 0` guards a division by V - 1
OtoGuard_Mutant(V) == V > 0

\* The conditions of the four conditional expressions.
OtoGuard(V) == V > 1

OtmGuard(V) == V > 2

MtoGuard(V) == V > 2

MtmGuard(V) == V > 0

\* oto = 1/3 * ( (V-A)/(V-1) + (V-T)/(V-1) + (V-abs(A-T))/V ) if V > 1 else 0
Oto(V, A, T) ==
  IF OtoGuard(V)
  THEN Third(Add(Add(Div(V - A, V - 1), Div(V - T, V - 1)), Div(V - Abs(A - T), V)))
  ELSE Zero

\* Faulty variant: T/(V-2) for T/(V-1)
Otm_Mutant(V, A, T) ==
  IF OtmGuard(V)
  THEN Third(Add(Add(Div(V - A, V - 1), Div(T, V - 2)), Div(Abs(A - T), V - 2)))
  ELSE Zero

\* otm = 1/3 * ( (V-A)/(V-1) + T/(V-1) + abs(A-T)/(V-2) ) if V > 2 else 0
Otm(V, A, T) ==
  IF OtmGuard(V)
  THEN Third(Add(Add(Div(V - A, V - 1), Div(T, V - 1)), Div(Abs(A - T), V - 2)))
  ELSE Zero

\* mto = 1/3 * ( A/(V-1) + (V-T)/(V-1) + abs(A-T)/(V-2) ) if V > 2 else 0
Mto(V, A, T) ==
  IF MtoGuard(V)
  THEN Third(Add(Add(Div(A, V - 1), Div(V - T, V - 1)), Div(Abs(A - T), V - 2)))
  ELSE Zero

\* mtm = 1/3 * ( A/V + T/V + (V-abs(A-T))/V ) if V > 0 else 0
Mtm(V, A, T) ==
  IF MtmGuard(V)
  THEN Third(Add(Add(Div(A, V), Div(T, V)), Div(V - Abs(A - T), V)))
  ELSE Zero

\* (oto, 'oto'), (otm, 'otm'), (mto, 'mto'), (mtm, 'mtm')
Scores(V, A, T) ==
  << <<Oto(V, A, T), "oto">>, <<Otm(V, A, T), "otm">>,
     <<Mto(V, A, T), "mto">>, <<Mtm(V, A, T), "mtm">> >>

\* max(..., key=lambda v: v[0]): a later item replaces the best so far only
\* when its key is greater.
RECURSIVE MaxFrom(_, _, _)
MaxFrom(items, p, best) ==
  IF p > Len(items) THEN best
  ELSE MaxFrom(items, p + 1, IF Less(best[1], items[p][1]) THEN items[p] ELSE best)

\* Faulty variant: a later item replaces the best so far when its key is not smaller
RECURSIVE MaxFromLast(_, _, _)
MaxFromLast(items, p, best) ==
  IF p > Len(items) THEN best
  ELSE MaxFromLast(items, p + 1, IF Less(items[p][1], best[1]) THEN best ELSE items[p])

PyMax_Mutant(items) == MaxFromLast(items, 2, items[1])

PyMax(items) == MaxFrom(items, 2, items[1])

\* The tuple infer_label returns, or raised = TRUE when a score raised.
infer_label(G) ==
  LET attackers == Attackers(G, 1)
      victims == Victims(G, 1)
      V == Len(G.nodes)
      A == Len(attackers)
      T == Len(victims)
      scores == Scores(V, A, T)
  IN IF \E x \in DOMAIN scores : Raised(scores[x][1])
     THEN [raised |-> TRUE, certainty |-> ZeroDivisionError, pattern_name |-> "",
           attackers |-> attackers, victims |-> victims]
     ELSE LET m == PyMax(scores)
          IN [raised |-> FALSE, certainty |-> m[1], pattern_name |-> m[2],
              attackers |-> attackers, victims |-> victims]

NoLabel == [raised |-> FALSE, certainty |-> Zero, pattern_name |-> "",
            attackers |-> <<>>, victims |-> <<>>]

\* ----------------------------------------------------------------- inputs
\* A column of n addresses: source addresses are the shared address 1 or the
\* alert's own address x; destination addresses the shared address 2 or x.
SrcColumns(n) == {[x \in 1..n |-> IF x \in S THEN x ELSE 1] : S \in SUBSET (2..n)}

DstColumns(n) == {[x \in 1..n |-> IF x \in S THEN x ELSE 2] : S \in SUBSET ((1..n) \ {2})}

\* A column of n ports: one shared port, or one port per alert.
PortColumns(n) == {[x \in 1..n |-> 1], [x \in 1..n |-> x]}

\* A column of n uids: pairwise distinct, or one alert repeating the uid of
\* the alert before it.
DistinctUids(n) == [x \in 1..n |-> x]

UidColumns(n) ==
  {DistinctUids(n)} \cup {[x \in 1..n |-> IF x = j THEN j - 1 ELSE x] : j \in 2..n}

AlertArray(n, uid, src, sp, dst, dp) ==
  [x \in 1..n |-> <<uid[x], src[x], sp[x], dst[x], dp[x]>>]

\* Array lengths: one below the asserted minimum up to the bound.
ArrayLengths == (MinAlerts - 1)..MaxAlerts

\* Thresholds in eighths: below 0, every attainable score, between them, above 1.
Thresholds == -1..9

PipelineThresholds == {DefaultThreshold, 2 * DefaultThreshold}

\* Clique sizes for gac_cluster: 1, for which networkx raises, and two it accepts.
PipelineCliqueSizes == {1, 2, 3}

\* Alert lists for netflow_graph alone: any addresses, any length up to the bound.
FlowAlerts(n, src, dst) == [x \in 1..n |-> <<x, src[x], 1, dst[x], 1>>]

\* Directed graphs for infer_label alone: any nodes, any edges, loops included.
DiGraph(S, E) == [nodes |-> SortedSeq(S), adj |-> E]

\* Undirected graphs for cluster_cliques alone: nodes 1..n, any edges.
UnorderedPairs(n) == {e \in (1..n) \X (1..n) : e[1] < e[2]}

UGraph(n, E) == [nodes |-> [x \in 1..n |-> x], adj |-> E \cup {<<e[2], e[1]>> : e \in E}]

\* ---------------------------------------------------------------- actions
\* g_attr = alert_similarity_graph(alerts, similarity_threshold)
SimilarityGraph ==
  /\ pc = "start"
  /\ IF AssertShape(alerts)
     THEN /\ g_attr' = alert_similarity_graph(alerts, similarity_threshold)
          /\ pc' = "cluster"
     ELSE /\ pc' = "AssertionError"
          /\ UNCHANGED g_attr
  /\ UNCHANGED <<alerts, similarity_threshold, clique_size, cliques,
                 all_clique_uids, i, labeled_clusters, g_flow, label>>

\* cliques = cluster_cliques(g_attr, clique_size)
\* for clique in list(cliques): all_clique_uids.append(list(clique))
ClusterCliques ==
  /\ pc = "cluster"
  /\ IF CliqueSizeOk(clique_size)
     THEN \E order \in Orderings(cluster_cliques(g_attr, clique_size)) :
            /\ cliques' = order
            /\ all_clique_uids' = [x \in DOMAIN order |-> ListOf(order[x])]
            /\ i' = 1
            /\ pc' = "label"
     ELSE /\ pc' = "NetworkXError"
          /\ UNCHANGED <<cliques, all_clique_uids, i>>
  /\ UNCHANGED <<alerts, similarity_threshold, clique_size, g_attr,
                 labeled_clusters, g_flow, label>>

\* One pass of `for clique_uids in all_clique_uids:`
LabelCluster ==
  /\ pc = "label"
  /\ i <= Len(all_clique_uids)
  /\ LET clique_uids == all_clique_uids[i]
     IN IF \E x \in DOMAIN clique_uids : ~HasUid(alerts, clique_uids[x])
        THEN /\ pc' = "KeyError"
             /\ UNCHANGED <<i, labeled_clusters, g_flow, label>>
        ELSE LET alerts_in_clique == get_alerts_by_uid(alerts, clique_uids)
                 flow == netflow_graph(alerts_in_clique)
                 res == infer_label(flow)
             IN /\ g_flow' = flow
                /\ label' = res
                /\ IF res.raised
                   THEN /\ pc' = "ZeroDivisionError"
                        /\ UNCHANGED <<i, labeled_clusters>>
                   ELSE /\ labeled_clusters' =
                             Append(labeled_clusters,
                                    <<res.certainty, res.pattern_name,
                                      alerts_in_clique, res.attackers, res.victims>>)
                        /\ i' = i + 1
                        /\ pc' = "label"
  /\ UNCHANGED <<alerts, similarity_threshold, clique_size, g_attr, cliques,
                 all_clique_uids>>

\* return labeled_clusters
Return ==
  /\ pc = "label"
  /\ i > Len(all_clique_uids)
  /\ pc' = "done"
  /\ UNCHANGED <<alerts, similarity_threshold, clique_size, g_attr, cliques,
                 all_clique_uids, i, labeled_clusters, g_flow, label>>

\* g_flow = netflow_graph(alerts), called on its own
FlowCall ==
  /\ pc = "flow"
  /\ g_flow' = netflow_graph(alerts)
  /\ pc' = "infer"
  /\ UNCHANGED <<alerts, similarity_threshold, clique_size, g_attr, cliques,
                 all_clique_uids, i, labeled_clusters, label>>

\* infer_label(g_flow), called on its own
LabelCall ==
  /\ pc = "infer"
  /\ label' = infer_label(g_flow)
  /\ pc' = IF label'.raised THEN "ZeroDivisionError" ELSE "labelled"
  /\ UNCHANGED <<alerts, similarity_threshold, clique_size, g_attr, cliques,
                 all_clique_uids, i, labeled_clusters, g_flow>>

\* --------------------------------------------------------- specifications
Idle ==
  /\ cliques = <<>>
  /\ all_clique_uids = <<>>
  /\ i = 1
  /\ labeled_clusters = <<>>
  /\ label = NoLabel

\* gac_cluster(alerts, similarity_threshold, clique_size)
Init ==
  /\ pc = "start"
  /\ \E n \in ArrayLengths :
       \E uid \in UidColumns(n), src \in SrcColumns(n), sp \in PortColumns(n),
          dst \in DstColumns(n), dp \in PortColumns(n) :
         alerts = AlertArray(n, uid, src, sp, dst, dp)
  /\ similarity_threshold \in PipelineThresholds
  /\ clique_size \in PipelineCliqueSizes
  /\ g_attr = EmptyGraph
  /\ g_flow = EmptyGraph
  /\ Idle

Next == SimilarityGraph \/ ClusterCliques \/ LabelCluster \/ Return

Spec == Init /\ [][Next]_vars

\* alert_similarity_graph(alerts, similarity_threshold) on its own
InitSim ==
  /\ pc = "start"
  /\ \E n \in ArrayLengths :
       \E src \in SrcColumns(n), sp \in PortColumns(n),
          dst \in DstColumns(n), dp \in PortColumns(n) :
         alerts = AlertArray(n, DistinctUids(n), src, sp, dst, dp)
  /\ similarity_threshold \in Thresholds
  /\ clique_size = DefaultCliqueSize
  /\ g_attr = EmptyGraph
  /\ g_flow = EmptyGraph
  /\ Idle

SpecSim == InitSim /\ [][SimilarityGraph]_vars

\* netflow_graph(alerts), then infer_label on its result
InitFlow ==
  /\ pc = "flow"
  /\ \E n \in 0..MaxFlowAlerts :
       \E src \in [1..n -> 1..MaxFlowAddr], dst \in [1..n -> 1..MaxFlowAddr] :
         alerts = FlowAlerts(n, src, dst)
  /\ similarity_threshold = DefaultThreshold
  /\ clique_size = DefaultCliqueSize
  /\ g_attr = EmptyGraph
  /\ g_flow = EmptyGraph
  /\ Idle

NextFlow == FlowCall \/ LabelCall

SpecFlow == InitFlow /\ [][NextFlow]_vars

\* infer_label(directed_graph) on any directed graph
InitLabel ==
  /\ pc = "infer"
  /\ alerts = <<>>
  /\ similarity_threshold = DefaultThreshold
  /\ clique_size = DefaultCliqueSize
  /\ g_attr = EmptyGraph
  /\ \E S \in SUBSET (1..MaxLabelNodes) :
       \E E \in SUBSET (S \X S) : g_flow = DiGraph(S, E)
  /\ Idle

SpecLabel == InitLabel /\ [][LabelCall]_vars

\* cluster_cliques(G, k) on any undirected graph
InitCpm ==
  /\ pc = "cluster"
  /\ alerts = <<>>
  /\ similarity_threshold = DefaultThreshold
  /\ clique_size \in 1..MaxCliqueSize
  /\ \E E \in SUBSET UnorderedPairs(MaxCpmNodes) : g_attr = UGraph(MaxCpmNodes, E)
  /\ g_flow = EmptyGraph
  /\ Idle

SpecCpm == InitCpm /\ [][ClusterCliques]_vars

\* ================================================================ claims
UidsDistinct(as) == \A x \in DOMAIN as : \A y \in DOMAIN as : as[x][1] = as[y][1] => x = y

Uids(as) == {as[x][1] : x \in DOMAIN as}

\* The number of the four attributes on which two alerts agree.
Agreeing(a, b) == Cardinality({k \in 2..5 : a[k] = b[k]})

NoRepeats(s) == \A x \in DOMAIN s : \A y \in DOMAIN s : s[x] = s[y] => x = y

\* ---------------------------------------------------------------------- C1
\* C1: for at least 5 alerts with pairwise distinct uids and any threshold, the
\* graph alert_similarity_graph returns has exactly the input uids as nodes,
\* and uids a, b are adjacent iff a # b and 0.25 * (number of agreeing
\* attributes) is strictly greater than the threshold; adjacency is symmetric
\* and no node is adjacent to itself.
C1_SimilarityGraph ==
  (pc = "cluster" /\ Len(alerts) >= MinAlerts /\ UidsDistinct(alerts)) =>
    /\ GraphNodes(g_attr) = Uids(alerts)
    /\ NoRepeats(g_attr.nodes)
    /\ g_attr.adj \subseteq Uids(alerts) \X Uids(alerts)
    /\ \A x \in DOMAIN alerts : \A y \in DOMAIN alerts :
         <<alerts[x][1], alerts[y][1]>> \in g_attr.adj
           <=> (x # y /\ 2 * Agreeing(alerts[x], alerts[y]) > similarity_threshold)
    /\ \A e \in g_attr.adj : <<e[2], e[1]>> \in g_attr.adj /\ e[1] # e[2]

\* A graph was built in which one pair scores exactly the threshold (no edge),
\* another pair scores above it (an edge) and one alert has no neighbour.
C1_Witness ==
  /\ pc = "cluster"
  /\ \E x \in DOMAIN alerts : \E y \in DOMAIN alerts :
       /\ x # y
       /\ 2 * Agreeing(alerts[x], alerts[y]) = similarity_threshold
       /\ <<alerts[x][1], alerts[y][1]>> \notin g_attr.adj
  /\ g_attr.adj # {}
  /\ \E n \in GraphNodes(g_attr) : \A e \in g_attr.adj : e[1] # n

\* ---------------------------------------------------------------------- C9
\* 5 alerts, distinct uids, one destination address and port, pairwise
\* distinct source addresses and source ports.
Scenario1 ==
  /\ Len(alerts) = 5
  /\ UidsDistinct(alerts)
  /\ \A x \in DOMAIN alerts : \A y \in DOMAIN alerts :
       /\ alerts[x][4] = alerts[y][4]
       /\ alerts[x][5] = alerts[y][5]
       /\ x # y => (alerts[x][2] # alerts[y][2] /\ alerts[x][3] # alerts[y][3])

Scenario1Built ==
  pc = "cluster" /\ Scenario1 /\ similarity_threshold = DefaultThreshold

\* C9 as stated: in scenario 1 every pair of alerts scores at most 0.25 and the
\* graph built at the default threshold 0.25 has no edges.
C9_Original ==
  Scenario1Built =>
    /\ \A x \in DOMAIN alerts : \A y \in DOMAIN alerts :
         x # y => Similarity(alerts[x], alerts[y]) <= DefaultThreshold
    /\ g_attr.adj = {}

\* C9 as amended: in scenario 1 every pair of distinct alerts scores exactly
\* 0.5 (two of the four attributes agree) and the graph built at the default
\* threshold 0.25 joins every two distinct alerts.
C9_Scenario1Complete ==
  Scenario1Built =>
    /\ \A x \in DOMAIN alerts : \A y \in DOMAIN alerts :
         x # y => Similarity(alerts[x], alerts[y]) = 2 * SimIncrement
    /\ g_attr.adj = {e \in Uids(alerts) \X Uids(alerts) : e[1] # e[2]}
    /\ GraphNodes(g_attr) = Uids(alerts)

C9_Witness == Scenario1Built /\ Cardinality(g_attr.adj) = 20

\* ---------------------------------------------------------------------- C5
FlowBuilt == pc \in {"infer", "labelled"}

\* The (src, dst) pairs of the alerts, and the addresses they name.
AlertPairs(as) == {<<as[x][2], as[x][4]>> : x \in DOMAIN as}

AlertAddresses(as) == {as[x][2] : x \in DOMAIN as} \cup {as[x][4] : x \in DOMAIN as}

Endpoints(G) == {e[1] : e \in G.adj} \cup {e[2] : e \in G.adj}

\* C5: netflow_graph returns a directed simple graph in which s -> d is an edge
\* iff s # d and some alert has src_addr s and dst_addr d; no edge joins a node
\* to itself, the nodes are exactly the endpoints of the edges (each held
\* once), so they are addresses of the alerts, and an address that occurs only
\* in self-traffic alerts is not a node.
C5_FlowGraph ==
  FlowBuilt =>
    /\ g_flow.adj = {e \in AlertPairs(alerts) : e[1] # e[2]}
    /\ \A e \in g_flow.adj : e[1] # e[2]
    /\ GraphNodes(g_flow) = Endpoints(g_flow)
    /\ NoRepeats(g_flow.nodes)
    /\ GraphNodes(g_flow) \subseteq AlertAddresses(alerts)
    /\ \A a \in AlertAddresses(alerts) :
         (\A x \in DOMAIN alerts :
            (alerts[x][2] = a \/ alerts[x][4] = a) => alerts[x][2] = alerts[x][4])
           => ~HasNode(g_flow, a)

\* Two alerts with the same (src, dst) pair gave one edge, and a third alert
\* is self-traffic on an address that is no node.
C5_Witness ==
  /\ FlowBuilt
  /\ \E x \in DOMAIN alerts : \E y \in DOMAIN alerts :
       /\ x # y
       /\ alerts[x][2] = alerts[y][2]
       /\ alerts[x][4] = alerts[y][4]
       /\ alerts[x][2] # alerts[x][4]
  /\ \E z \in DOMAIN alerts : alerts[z][2] = alerts[z][4] /\ ~HasNode(g_flow, alerts[z][2])
  /\ Cardinality(g_flow.adj) = 1

\* --------------------------------------------------------------------- C10
FlowLabelled == pc = "labelled"

\* C10: in a flow graph netflow_graph produced every node has out-degree >= 1
\* or in-degree >= 1, so A + T >= V, A >= 1 and T >= 1 whenever V >= 1, V is
\* never 1, and attackers and victims hold each address at most once and are
\* exactly the nodes with out-degree >= 1 and in-degree >= 1.
C10_Degrees ==
  FlowLabelled =>
    LET V == Len(g_flow.nodes)
        A == Len(label.attackers)
        T == Len(label.victims)
    IN /\ \A n \in GraphNodes(g_flow) :
            (\E e \in g_flow.adj : e[1] = n) \/ (\E e \in g_flow.adj : e[2] = n)
       /\ A + T >= V
       /\ V >= 1 => (A >= 1 /\ T >= 1)
       /\ V # 1
       /\ NoRepeats(label.attackers)
       /\ NoRepeats(label.victims)
       /\ Range(label.attackers) = {e[1] : e \in g_flow.adj}
       /\ Range(label.victims) = {e[2] : e \in g_flow.adj}

\* A labelled flow graph of at least 3 nodes, one of them attacker and victim.
C10_Witness ==
  /\ FlowLabelled
  /\ Len(g_flow.nodes) >= 3
  /\ Range(label.attackers) \cap Range(label.victims) # {}
  /\ Len(label.attackers) + Len(label.victims) > Len(g_flow.nodes)

\* ---------------------------------------------------------------------- C4
InUnitInterval(r) == r.d > 0 /\ 0 <= r.n /\ r.n <= r.d

StateScores == Scores(Len(g_flow.nodes), Len(label.attackers), Len(label.victims))

\* C4: for a flow graph netflow_graph produced, each of the four scores
\* infer_label computes lies in [0, 1] in exact arithmetic, and so does the
\* certainty it returns.
C4_ScoresInUnitInterval ==
  FlowLabelled =>
    /\ \A x \in 1..4 : InUnitInterval(StateScores[x][1])
    /\ InUnitInterval(label.certainty)

\* A labelled flow graph of at least 3 nodes in which a score is exactly 1 and
\* another lies strictly between 0 and 1.
C4_Witness ==
  /\ FlowLabelled
  /\ Len(g_flow.nodes) >= 3
  /\ \E x \in 1..4 : StateScores[x][1].n = StateScores[x][1].d
  /\ \E x \in 1..4 : 0 < StateScores[x][1].n /\ StateScores[x][1].n < StateScores[x][1].d

\* ---------------------------------------------------------------------- C3
\* The place of a pattern in the priority order oto > otm > mto > mtm.
Priority(pattern_name) == CHOOSE x \in 1..4 : StateScores[x][2] = pattern_name

\* C3: the certainty infer_label returns is the maximum of the four scores,
\* and the returned pattern is the earliest, in the order one-to-one,
\* one-to-many, many-to-one, many-to-many, of the hypotheses with that score.
C3_MaxAndTieBreak ==
  pc = "labelled" =>
    /\ \E x \in 1..4 : StateScores[x] = <<label.certainty, label.pattern_name>>
    /\ \A x \in 1..4 : ~Less(label.certainty, StateScores[x][1])
    /\ \A x \in 1..4 :
         Same(StateScores[x][1], label.certainty) => Priority(label.pattern_name) <= x

\* A labelled graph in which two hypotheses share the maximum.
C3_Witness ==
  /\ pc = "labelled"
  /\ \E x \in 1..4 : \E y \in 1..4 :
       /\ x < y
       /\ Same(StateScores[x][1], label.certainty)
       /\ Same(StateScores[y][1], label.certainty)

\* ---------------------------------------------------------------------- C8
\* C8: infer_label never divides by zero, whatever the graph: a hypothesis
\* whose size requirement fails (one-to-one V > 1, one-to-many and many-to-one
\* V > 2, many-to-many V > 0) scores 0, the maximum is taken over all four
\* scores and a result is returned; for the empty graph it is certainty 0
\* with no attackers and no victims.
C8_NoDivisionByZero ==
  /\ pc # "ZeroDivisionError"
  /\ ~label.raised
  /\ pc = "labelled" =>
       LET V == Len(g_flow.nodes)
       IN /\ \A x \in 1..4 : ~Raised(StateScores[x][1])
          /\ V <= 1 => StateScores[1][1] = Zero
          /\ V <= 2 => (StateScores[2][1] = Zero /\ StateScores[3][1] = Zero)
          /\ V <= 0 => StateScores[4][1] = Zero
          /\ \A x \in 1..4 : ~Less(label.certainty, StateScores[x][1])
          /\ label.pattern_name \in {"oto", "otm", "mto", "mtm"}
          /\ V = 0 => (label.certainty = Zero /\ label.attackers = <<>>
                       /\ label.victims = <<>>)

\* A graph of exactly one node (V - 1 = 0) was labelled.
C8_Witness == pc = "labelled" /\ Len(g_flow.nodes) = 1 /\ label.certainty.n > 0

\* ---------------------------------------------------------------------- C2
\* The clique-percolation method on k-subsets.
KSubsets(S, k) == {c \in SUBSET S : Cardinality(c) = k}

FullyConnected(G, c) == \A u \in c : \A v \in c \ {u} : <<u, v>> \in G.adj /\ <<v, u>> \in G.adj

KCliques(G, k) == {c \in KSubsets(GraphNodes(G), k) : FullyConnected(G, c)}

Overlap(c, d, k) == c # d /\ Cardinality(c \cap d) >= k - 1

RECURSIVE OverlapComponent(_, _, _)
OverlapComponent(all, S, k) ==
  LET S2 == S \cup {d \in all : \E c \in S : Overlap(c, d, k)}
  IN IF S2 = S THEN S ELSE OverlapComponent(all, S2, k)

KCliqueCommunities(G, k) ==
  {UNION OverlapComponent(KCliques(G, k), {c}, k) : c \in KCliques(G, k)}

\* C2: for k >= 2 cluster_cliques yields exactly the communities of the
\* clique-percolation method on k-subsets: the fully connected k-subsets (the
\* k-subsets of the maximal cliques of at least k nodes), linked when they
\* share at least k - 1 nodes, one union per connected component.  So every
\* community has at least k nodes, a k-clique that overlaps no other is a
\* community of k nodes, and nothing is yielded when there is no k-clique.
C2_CliquePercolation ==
  (pc = "label" /\ clique_size >= 2) =>
    LET k == clique_size
        kcliques == KCliques(g_attr, k)
    IN /\ Range(cliques) = KCliqueCommunities(g_attr, k)
       /\ NoRepeats(cliques)
       /\ kcliques = UNION {KSubsets(m, k) : m \in LargeCliques(g_attr, k)}
       /\ \A x \in DOMAIN cliques : Cardinality(cliques[x]) >= k
       /\ \A c \in kcliques :
            (\A d \in kcliques : ~Overlap(c, d, k)) => c \in Range(cliques)
       /\ kcliques = {} => cliques = <<>>
       /\ all_clique_uids = [x \in DOMAIN cliques |-> SortedSeq(cliques[x])]

\* Two communities that share a node were yielded.
C2_Witness ==
  /\ pc = "label"
  /\ \E x \in DOMAIN cliques : \E y \in DOMAIN cliques :
       x # y /\ cliques[x] \cap cliques[y] # {}

\* ---------------------------------------------------------------------- C6
ValidInput == Len(alerts) >= MinAlerts /\ UidsDistinct(alerts)

\* The label infer_label gives the flow graph of the alerts as.
LabelOf(as) == infer_label(netflow_graph(as))

C7_FailsFast ==
  ~ValidInput =>
    /\ pc \in {"start", "AssertionError"}
    /\ g_attr = EmptyGraph
    /\ labeled_clusters = <<>>

====
